---- MODULE Spec2Model ----
(***************************************************************************)
(* deepbuffer: the batch summarization and ingestion pipeline.             *)
(*                                                                         *)
(* The store (items, summaries, workspaces) is the shared state.  Every    *)
(* await on the store or on a provider is a suspension point, so the long  *)
(* handlers (fetchSlackMessages, runBatchSummarization) are processes      *)
(* whose steps are the code between two awaits.  The short HTTP handlers   *)
(* and runRetentionPolicy issue one store statement and are one action.    *)
(***************************************************************************)
EXTENDS Integers, Sequences, FiniteSets, TLC

VARIABLES
    items,        \* items table: id -> row
    nextId,       \* next fresh item id (uuid_generate_v4: never reused)
    summaries,    \* summaries table, in insertion order
    workspaces,   \* workspaces table: rows [team_id, access_token, user_id]
    now,          \* wall clock, in days
    poller,       \* per process: locals of fetchSlackMessages
    batch,        \* per process: locals of runBatchSummarization
    obs,          \* what the last step was and what it saw (history variable)
    hist,         \* what has happened so far (history variable)
    config,       \* the environment the process was started with
    feed          \* time of day: hour (whole hours since a midnight) and
                  \* posted (the hour the provider's messages were posted)

vars == <<items, nextId, summaries, workspaces, now, poller, batch, obs, hist, config, feed>>

-----------------------------------------------------------------------------
(* Bounds of the model *)

MaxItems == 3        \* rows ever inserted into items
MaxClock == 9        \* days the clock runs
MaxListReqs == 3     \* conversations.list requests counted per workspace
MaxBacklog == 2      \* pending rows of a user beyond one batch
MaxHour == 47        \* hours the time of day runs

(* Configuration: the clients are null when their environment variables are
   missing; CRON_SECRET is a string or unset *)

Unset == "-"
Environment(supabase, openai, cronSecret) ==
    [supabase |-> supabase, openai |-> openai, CRON_SECRET |-> cronSecret]
Configured == Environment(TRUE, TRUE, "s3cret")

(* Program constants *)

RetentionDays == 7   \* cronService.ts:132
BatchLimit == 50     \* cronService.ts:59

UserOrder == <<"u1", "u2">>     \* the users, in user_id order
Users == {UserOrder[i] : i \in 1..Len(UserOrder)}
Procs == {1, 2}

Min(a, b) == IF a < b THEN a ELSE b

\* The faults a specification lets the collaborators show: F is a subset of
\* {"store", "provider", "ai"}.  Without a fault every store statement succeeds
\* and every provider answers ok.
StoreErrors(F) == IF "store" \in F THEN BOOLEAN ELSE {FALSE}
ProviderResponses(F, all) == IF "provider" \in F THEN all ELSE {"ok"}

-----------------------------------------------------------------------------
(* The store *)

Teams == {"T1", "T2"}

\* A row of items.  channel, ts and team are meta_data->>channel, ->>ts and
\* ->>team; a row created through /items/create carries none of them.
NoChannel == "-"
NoTs == 0
NoTeam == "-"

Item(st, status, uid, at, ch, ts, team) ==
    [source_type |-> st, status |-> status, user_id |-> uid, created_at |-> at,
     channel |-> ch, ts |-> ts, team |-> team]

Ids == DOMAIN items

\* insert into items: the row gets a fresh id and created_at = now()
InsertItem(tbl, id, row) ==
    [i \in DOMAIN tbl \cup {id} |-> IF i = id THEN row ELSE tbl[i]]

DeleteItems(tbl, gone) == [i \in DOMAIN tbl \ gone |-> tbl[i]]

\* an update without its .in('id', ids) filter
UpdateStatusOfAll(tbl, ids, status) == [i \in DOMAIN tbl |-> [tbl[i] EXCEPT !.status = status]]

UpdateStatus(tbl, ids, status) ==
    [i \in DOMAIN tbl |-> IF i \in ids THEN [tbl[i] EXCEPT !.status = status] ELSE tbl[i]]

\* a JavaScript value that is undefined, or a number
Undefined == [defined |-> FALSE, value |-> 0]
Number(n) == [defined |-> TRUE, value |-> n]

\* an Authorization header: none, or Bearer and a token
NoHeader == <<>>
Bearer(token) == <<"Bearer", token>>

\* `Bearer ${process.env.CRON_SECRET}`: an unset variable is undefined, which a
\* template literal writes as the text undefined
TemplateText(v) == IF v = Unset THEN "undefined" ELSE v
ExpectedHeader == Bearer(TemplateText(config.CRON_SECRET))

\* status: the HTTP status of the response, 0 when the step answers no request
NoObs == [op |-> "-", before |-> <<>>, error |-> FALSE, ret |-> Undefined,
          header |-> NoHeader, status |-> 0]

\* the observation of a step that serves a request carrying this header
Request(header, status) == [NoObs EXCEPT !.header = header, !.status = status]

\* return c.json({ error: 'Unauthorized' }, 401)
Unauthorized(header) ==
    /\ obs' = [Request(header, 401) EXCEPT !.op = "rejected"]
    /\ UNCHANGED <<feed, config, items, nextId, summaries, workspaces, now, poller, batch, hist>>

-----------------------------------------------------------------------------
(* runRetentionPolicy: cronService.ts:125-150 *)

\* dateThreshold = new Date(); setDate(getDate() - 7)
DateThreshold == now - RetentionDays

\* the filter without .neq('source_type', 'web')
RetentionFilterAnySource(row) ==
    /\ row.created_at < DateThreshold
    /\ row.status \in {"archived", "done", "summarized"}

\* the filter with .lte in place of .lt
RetentionFilterLte(row) ==
    /\ row.created_at <= DateThreshold
    /\ row.status \in {"archived", "done", "summarized"}
    /\ row.source_type # "web"

\* .lt('created_at', threshold).in('status', [...]).neq('source_type', 'web')
RetentionFilter(row) ==
    /\ row.created_at < DateThreshold
    /\ row.status \in {"archived", "done", "summarized"}
    /\ row.source_type # "web"

\* One DELETE statement; on a store error nothing is deleted and the error is
\* logged.  The function has no return statement.
Sweep(F, o) ==
    /\ IF ~config.supabase
       THEN /\ items' = items                   \* if (!supabase) return;
            /\ obs' = [o EXCEPT !.op = "nosweep", !.before = items]
       ELSE \E error \in StoreErrors(F) :
            /\ items' = IF error THEN items
                        ELSE DeleteItems(items, {i \in Ids : RetentionFilter(items[i])})
            /\ obs' = [o EXCEPT !.op = "sweep", !.before = items, !.error = error,
                                !.ret = Undefined]
    /\ hist' = [hist EXCEPT !.streak = "none"]
    /\ UNCHANGED <<feed, config, nextId, summaries, workspaces, now, poller, batch>>

\* 167-169: the scheduler callback
runRetentionPolicy(F) == Sweep(F, NoObs)

\* GET /cron/retention (api/index.ts:496-505): the response is
\* { success: true, count: result } with status 200 whatever the result is
CronRetention(header, F) ==
    IF header # ExpectedHeader THEN Unauthorized(header)
    ELSE Sweep(F, Request(header, 200))

\* the clock
Tick(days) ==
    /\ now + days <= MaxClock
    /\ now' = now + days
    /\ obs' = NoObs
    /\ UNCHANGED <<feed, config, items, nextId, summaries, workspaces, poller, batch, hist>>

-----------------------------------------------------------------------------
(* The HTTP handlers that write items: api/index.ts *)

\* POST /items/archive-all (338-363): every row of the user that is not
\* archived and not a web link, optionally of one workspace only
ArchiveFilter(row, uid, workspaceId) ==
    /\ row.user_id = uid
    /\ row.status # "archived"
    /\ row.source_type # "web"
    /\ (workspaceId # "all" => row.team = workspaceId)

ArchiveAll(uid, workspaceId) ==
    /\ config.supabase
    /\ \E i \in Ids : ArchiveFilter(items[i], uid, workspaceId)
    /\ items' = UpdateStatus(items, {i \in Ids : ArchiveFilter(items[i], uid, workspaceId)},
                             "archived")
    /\ obs' = NoObs
    /\ UNCHANGED <<feed, config, nextId, summaries, workspaces, now, poller, batch, hist>>

\* POST /items/create (368-443), line 429:
\* sourceType === 'web_clip' ? 'web' : (sourceType || 'web')
CreateSourceType(sourceType) ==
    IF sourceType = "web_clip" THEN "web"
    ELSE IF sourceType = "" THEN "web" ELSE sourceType

ItemsCreate(uid, sourceType) ==
    /\ config.supabase
    /\ nextId <= MaxItems
    /\ items' = InsertItem(items, nextId,
                    Item(CreateSourceType(sourceType), "pending", uid, now,
                         NoChannel, NoTs, NoTeam))
    /\ nextId' = nextId + 1
    /\ obs' = NoObs
    /\ UNCHANGED <<feed, config, summaries, workspaces, now, poller, batch, hist>>

\* DELETE /items/:id (446-464): .delete().eq('id', id).eq('user_id', user.id)
ItemsDelete(uid, id) ==
    /\ config.supabase
    /\ items' = DeleteItems(items, {i \in Ids : i = id /\ items[i].user_id = uid})
    /\ hist' = [hist EXCEPT !.streak = "none"]
    /\ obs' = NoObs
    /\ UNCHANGED <<feed, config, nextId, summaries, workspaces, now, poller, batch>>

\* a row of workspaces
Workspace(team, token, uid) == [team_id |-> team, access_token |-> token, user_id |-> uid]

\* GET /auth/callback (api/index.ts:154-178), after the token exchange, with
\* state = uid: upsert of the workspace on team_id
AuthCallback(team, uid) ==
    /\ config.supabase
    /\ workspaces' =
            IF \E i \in 1..Len(workspaces) : workspaces[i].team_id = team
            THEN [i \in 1..Len(workspaces) |->
                    IF workspaces[i].team_id = team THEN Workspace(team, TRUE, uid)
                    ELSE workspaces[i]]
            ELSE Append(workspaces, Workspace(team, TRUE, uid))
    /\ obs' = NoObs
    /\ UNCHANGED <<feed, config, items, nextId, summaries, now, poller, batch, hist>>

-----------------------------------------------------------------------------
(* The message provider, as fetchSlackMessages sees it *)

\* conversations.list of a team, page by page (next_cursor = index of the next
\* page).  C1 is shared by both teams.
Channel(id, archived) == [id |-> id, is_archived |-> archived]

ProviderPages(team) ==
    IF team = "T1" THEN << <<Channel("C1", FALSE)>>, <<Channel("C2", FALSE), Channel("C9", TRUE)>> >>
    ELSE << <<Channel("C1", FALSE)>> >>

\* users.list: the member ids flagged is_bot
DirectoryBots == {"B1"}

\* conversations.history of a channel.  user = "" is a message without author.
Msg(ts, user, subtype, bot) == [ts |-> ts, user |-> user, subtype |-> subtype, bot_id |-> bot]

ProviderHistory(ch) ==
    IF ch = "C1" THEN << Msg(1, "U1", "", FALSE), Msg(2, "B1", "", FALSE) >>
    ELSE IF ch = "C2" THEN << Msg(1, "U2", "channel_join", FALSE), Msg(2, "", "", FALSE),
                              Msg(3, "U3", "", TRUE) >>
    ELSE << >>

\* 179: fourHoursAgo = Date.now() / 1000 - 4 * 60 * 60
LookbackHours == 4
FourHoursAgo == feed.hour - LookbackHours

\* conversations.history with oldest = fourHoursAgo: the messages posted
\* after it.  Until time of day is made to pass, the messages are recent.
LiveFeed == [hour |-> 0, posted |-> 0]

History(ch, oldest) == IF feed.posted > oldest THEN ProviderHistory(ch) ELSE << >>

\* slackService.ts:207-211: the messages the poller skips
Skipped(msg, bots) ==
    \/ msg.subtype # ""
    \/ msg.user = ""
    \/ msg.bot_id
    \/ msg.user \in bots

\* the check on a metadata key that no row carries
DuplicateRowsOfNoKey(tbl, ch, ts) == {i \in DOMAIN tbl : tbl[i].ts = ts /\ tbl[i].channel = NoChannel}

\* .eq('meta_data->>ts', ts).eq('meta_data->>channel', ch): no team, no user
DuplicateRows(tbl, ch, ts) == {i \in DOMAIN tbl : tbl[i].ts = ts /\ tbl[i].channel = ch}

\* .single(): the row when the query yields exactly one row, else data = null
\* (no row, several rows, or a failed query)
Single(rows, error) == IF ~error /\ Cardinality(rows) = 1 THEN CHOOSE r \in rows : TRUE ELSE 0

-----------------------------------------------------------------------------
(* fetchSlackMessages: slackService.ts:87-254, one cycle per process *)

IdlePoller ==
    [pc |-> "idle", ws |-> <<>>, wi |-> 0, bots |-> {}, cursor |-> 0, channels |-> <<>>,
     ci |-> 0, msgs |-> <<>>, mi |-> 0,
     listReqs |-> 0, limited |-> FALSE, totalSaved |-> 0]

InFlight(p) == poller[p].pc \notin {"idle", "done"}

\* for (const ws of workspaces) { if (!token) continue; ... }: the next
\* workspace at or after index i that has a token, and the state entering it
RECURSIVE NextWs(_, _)
NextWs(ws, i) ==
    IF i > Len(ws) THEN 0
    ELSE IF ws[i].access_token THEN i ELSE NextWs(ws, i + 1)

EnterWs(q, i) ==
    LET j == NextWs(q.ws, i) IN
    IF j = 0 THEN [q EXCEPT !.pc = "done", !.wi = 0, !.bots = {}, !.cursor = 0,
                            !.channels = <<>>, !.ci = 0, !.msgs = <<>>, !.mi = 0,
                            !.listReqs = 0, !.limited = FALSE]
    ELSE [q EXCEPT !.pc = "users", !.wi = j, !.bots = {}, !.cursor = 0,
                   !.channels = <<>>, !.ci = 0, !.msgs = <<>>, !.mi = 0,
                   !.listReqs = 0, !.limited = FALSE]

\* a catch that ends the whole cycle
EndCycle(q) == EnterWs(q, Len(q.ws) + 1)

\* 244-246: catch (wsErr) { console.error(...) }, then the next workspace
CatchWsErr(q) == EnterWs(q, q.wi + 1)

\* for (const channel of allChannels) { if (channel.is_archived) continue; ... }
RECURSIVE NextChannel(_, _)
NextChannel(chs, i) ==
    IF i > Len(chs) THEN 0
    ELSE IF ~chs[i].is_archived THEN i ELSE NextChannel(chs, i + 1)

EnterChannel(q, i) ==
    LET j == NextChannel(q.channels, i) IN
    IF j = 0 THEN EnterWs(q, q.wi + 1)
    ELSE [q EXCEPT !.pc = "history", !.ci = j, !.msgs = <<>>, !.mi = 0,
                   !.listReqs = 0, !.limited = FALSE]

\* for (const msg of messages) { if (skipped) continue; ... }
RECURSIVE NextMsg(_, _, _)
NextMsg(msgs, bots, i) ==
    IF i > Len(msgs) THEN 0
    ELSE IF ~Skipped(msgs[i], bots) THEN i ELSE NextMsg(msgs, bots, i + 1)

EnterMsg(q, i) ==
    LET j == NextMsg(q.msgs, q.bots, i) IN
    IF j = 0 THEN EnterChannel(q, q.ci + 1)
    ELSE [q EXCEPT !.pc = "check", !.mi = j]

\* history.
\*   blind:   some row was inserted without a successful duplication check
\*            before it (by the webhook, or after a check query that failed)
\*   overlap: two poll cycles were in flight at the same time
\*   streak:  "first"  a cycle is running; it has been alone and has seen only
\*                     successful responses so far
\*            "rest"   such a cycle has ended and nothing has inserted or
\*                     deleted an item since
\*            "second" a cycle that started at "rest" is running, alone and
\*                     with only successful responses so far
\*            "none"   otherwise
NoHist == [blind |-> FALSE, overlap |-> FALSE, streak |-> "none"]

Broken(h) == [h EXCEPT !.streak = "none"]

\* h after a step of a cycle that leaves the poller as q; fault: the step saw
\* a failed response
HistAfter(h, q, fault) ==
    IF fault THEN Broken(h)
    ELSE IF q.pc = "done" /\ h.streak \in {"first", "second"} THEN [h EXCEPT !.streak = "rest"]
    ELSE h

\* the entry of fetchSlackMessages, up to its first await
StartPoll(p) ==
    [poller EXCEPT ![p] = [IdlePoller EXCEPT !.pc = IF config.supabase THEN "start" ELSE "done"]]

StartHist(p) ==
    IF ~config.supabase THEN hist
    ELSE IF \E o \in Procs : InFlight(o) THEN [hist EXCEPT !.overlap = TRUE, !.streak = "none"]
    ELSE IF hist.streak = "rest" THEN [hist EXCEPT !.streak = "second"]
    ELSE [hist EXCEPT !.streak = "first"]

\* POST /messages/sync: api/index.ts:613-622
MessagesSync(p) ==
    /\ poller[p].pc = "idle"
    /\ batch[p].pc = "idle"
    /\ poller' = StartPoll(p)
    /\ hist' = StartHist(p)
    /\ obs' = NoObs
    /\ UNCHANGED <<feed, config, items, nextId, summaries, workspaces, now, batch>>

\* 94-102: select team_id, access_token, user_id from workspaces
PollWorkspaces(p, F) ==
    /\ poller[p].pc = "start"
    /\ \E error \in StoreErrors(F) :
        LET q == poller[p]
            q2 == IF error \/ Len(workspaces) = 0
                  THEN [q EXCEPT !.pc = "done"]
                  ELSE EnterWs([q EXCEPT !.ws = workspaces], 1)
        IN  /\ poller' = [poller EXCEPT ![p] = q2]
            /\ hist' = HistAfter(hist, q2, error)
    /\ obs' = NoObs
    /\ UNCHANGED <<feed, config, items, nextId, summaries, workspaces, now, batch>>

\* 119-134: users.list.  A thrown fetch or json() ends this workspace (catch at
\* 244); a response that is not ok leaves the directory empty.
PollUsers(p, F) ==
    /\ poller[p].pc = "users"
    /\ \E resp \in ProviderResponses(F, {"ok", "notok", "throw"}) :
        LET q == poller[p]
            q2 == IF resp = "throw" THEN CatchWsErr(q)
                  ELSE IF resp = "notok" THEN [q EXCEPT !.pc = "channels"]
                  ELSE [q EXCEPT !.pc = "channels", !.bots = DirectoryBots]
        IN  /\ poller' = [poller EXCEPT ![p] = q2]
            /\ hist' = HistAfter(hist, q2, resp # "ok")
    /\ obs' = NoObs
    /\ UNCHANGED <<feed, config, items, nextId, summaries, workspaces, now, batch>>

\* 140-176: one iteration of while (true) around conversations.list.
\* 429: sleep, then continue (the request is issued again with the same cursor).
\* not ok, or a throw caught at 172: break.  ok: push the page, follow next_cursor.
PollChannels(p, F) ==
    /\ poller[p].pc = "channels"
    /\ \E resp \in ProviderResponses(F, {"ok", "429", "notok", "throw"}) :
        LET q == poller[p]
            pages == ProviderPages(q.ws[q.wi].team_id)
            q1 == [q EXCEPT !.listReqs = Min(@ + 1, MaxListReqs)]
            q2 == IF resp = "429" THEN [q1 EXCEPT !.limited = TRUE]
                  ELSE IF resp \in {"notok", "throw"} THEN EnterChannel(q1, 1)
                  ELSE LET q3 == [q1 EXCEPT !.channels = @ \o pages[q.cursor + 1]] IN
                       IF q.cursor + 1 < Len(pages)
                       THEN [q3 EXCEPT !.cursor = @ + 1]
                       ELSE EnterChannel(q3, 1)
        IN  /\ poller' = [poller EXCEPT ![p] = q2]
            /\ hist' = HistAfter(hist, q2, resp # "ok")
    /\ obs' = NoObs
    /\ UNCHANGED <<feed, config, items, nextId, summaries, workspaces, now, batch>>

\* 182-203: conversations.history of the current channel.  429 or not ok: next
\* channel.  A throw ends this workspace (catch at 244).
PollHistory(p, F) ==
    /\ poller[p].pc = "history"
    /\ \E resp \in ProviderResponses(F, {"ok", "429", "notok", "throw"}) :
        LET q == poller[p]
            q2 == IF resp = "throw" THEN CatchWsErr(q)
                  ELSE IF resp \in {"429", "notok"} THEN EnterChannel(q, q.ci + 1)
                  ELSE EnterMsg([q EXCEPT !.msgs = History(q.channels[q.ci].id, FourHoursAgo)], 1)
        IN  /\ poller' = [poller EXCEPT ![p] = q2]
            /\ hist' = HistAfter(hist, q2, resp # "ok")
    /\ obs' = NoObs
    /\ UNCHANGED <<feed, config, items, nextId, summaries, workspaces, now, batch>>

\* 216-224: the duplication check
PollCheck(p, F) ==
    /\ poller[p].pc = "check"
    /\ \E error \in StoreErrors(F) :
        LET q == poller[p]
            existing == Single(DuplicateRows(items, q.channels[q.ci].id, q.msgs[q.mi].ts), error)
            q2 == IF existing = 0 THEN [q EXCEPT !.pc = "insert"] ELSE EnterMsg(q, q.mi + 1)
        IN  /\ poller' = [poller EXCEPT ![p] = q2]
            /\ hist' = HistAfter([hist EXCEPT !.blind = @ \/ error], q2, error)
    /\ obs' = NoObs
    /\ UNCHANGED <<feed, config, items, nextId, summaries, workspaces, now, batch>>

\* 225-240: the insert; its result is not looked at
PollInsert(p, F) ==
    /\ poller[p].pc = "insert"
    /\ nextId <= MaxItems
    /\ \E error \in StoreErrors(F) :
        LET q == poller[p]
            w == q.ws[q.wi]
            row == Item("slack", "pending", w.user_id, now,
                        q.channels[q.ci].id, q.msgs[q.mi].ts, w.team_id)
            q2 == EnterMsg([q EXCEPT !.totalSaved = @ + 1], q.mi + 1)
        IN  /\ items' = IF error THEN items ELSE InsertItem(items, nextId, row)
            /\ nextId' = IF error THEN nextId ELSE nextId + 1
            /\ poller' = [poller EXCEPT ![p] = q2]
            /\ hist' = HistAfter(hist, q2, error)
    /\ obs' = NoObs
    /\ UNCHANGED <<feed, config, summaries, workspaces, now, batch>>

\* the handler with an upsert on (channel, ts) that rewrites the stored row
WebhookSlackUpsert(team, ch, msg) ==
    /\ ~msg.bot_id
    /\ msg.subtype = ""
    /\ \E i \in 1..Len(workspaces) : workspaces[i].team_id = team
    /\ nextId <= MaxItems
    /\ LET w == workspaces[CHOOSE i \in 1..Len(workspaces) : workspaces[i].team_id = team]
           old == DuplicateRows(items, ch, msg.ts)
       IN  IF old = {}
           THEN /\ items' = InsertItem(items, nextId,
                                Item("slack", "pending", w.user_id, now, ch, msg.ts, team))
                /\ nextId' = nextId + 1
           ELSE /\ items' = UpdateStatus(items, old, "pending")
                /\ nextId' = nextId
    /\ hist' = [hist EXCEPT !.blind = TRUE, !.streak = "none"]
    /\ obs' = NoObs
    /\ UNCHANGED <<feed, config, summaries, workspaces, now, poller, batch>>

\* POST /webhook/slack (api/index.ts:188-276), for an event the provider sends
\* with a valid signature: the message msg of channel ch, in team's workspace.
\* No duplication check precedes the insert.
WebhookSlack(team, ch, msg) ==
    /\ config.supabase
    /\ ~msg.bot_id
    /\ msg.subtype = ""
    /\ \E i \in 1..Len(workspaces) : workspaces[i].team_id = team
    /\ nextId <= MaxItems
    /\ LET w == workspaces[CHOOSE i \in 1..Len(workspaces) : workspaces[i].team_id = team]
       IN items' = InsertItem(items, nextId,
                       Item("slack", "pending", w.user_id, now, ch, msg.ts, team))
    /\ nextId' = nextId + 1
    /\ hist' = [hist EXCEPT !.blind = TRUE, !.streak = "none"]
    /\ obs' = NoObs
    /\ UNCHANGED <<feed, config, summaries, workspaces, now, poller, batch>>

-----------------------------------------------------------------------------
(* generateSummary: aiService.ts:14-62 *)

\* What the provider call yields: a thrown error, or the content of the first
\* choice: nothing, text that is not JSON, or JSON text.  The JSON values are
\* null; a falsy scalar (false, 0, ""); a truthy value without fields (true, 1,
\* "x", an array); an object with neither, one or both of the two fields.
AIResponses ==
    {"throw", "empty", "notjson", "null", "falsy", "scalar", "object",
     "summaryOnly", "topicsOnly", "both"}

\* a JavaScript value, as far as runBatchSummarization looks at it
Value(isNull, truthy, hasSummary, hasTopics) ==
    [isNull |-> isNull, truthy |-> truthy, summaryText |-> hasSummary, keyTopics |-> hasTopics]

Null == Value(TRUE, FALSE, FALSE, FALSE)

\* JSON.parse(text) as SummaryResult: the cast checks nothing
JSONParse(text) ==
    IF text = "null" THEN Null
    ELSE IF text = "falsy" THEN Value(FALSE, FALSE, FALSE, FALSE)
    ELSE IF text \in {"scalar", "object"} THEN Value(FALSE, TRUE, FALSE, FALSE)
    ELSE IF text = "summaryOnly" THEN Value(FALSE, TRUE, TRUE, FALSE)
    ELSE IF text = "topicsOnly" THEN Value(FALSE, TRUE, FALSE, TRUE)
    ELSE Value(FALSE, TRUE, TRUE, TRUE)

AIOutcomes(F) == IF "ai" \in F THEN AIResponses ELSE {"both"}

\* how a call completes: it returns a value or throws
Return(v) == [thrown |-> FALSE, value |-> v]
Throw == [thrown |-> TRUE, value |-> Null]

\* 20-57: the body of the try block
TryBody(resp) ==
    IF resp = "throw" THEN Throw               \* create() rejects
    ELSE IF resp = "empty" THEN Return(Null)   \* if (!text) return null
    ELSE IF resp = "notjson" THEN Throw        \* JSON.parse throws
    ELSE Return(JSONParse(resp))

\* the function without its try/catch
generateSummaryUncaught(resp) == IF ~config.openai THEN Return(Null) ELSE TryBody(resp)

\* 14-62: if (!openai) return null; try { ... } catch (error) { return null }
generateSummary(resp) ==
    IF ~config.openai THEN Return(Null)
    ELSE IF TryBody(resp).thrown THEN Return(Null)
    ELSE TryBody(resp)

-----------------------------------------------------------------------------
(* runBatchSummarization: cronService.ts:16-122, one run per process *)

IdleBatch ==
    [pc |-> "idle", userIds |-> <<>>, ui |-> 0, fetched |-> {},
     result |-> Null, details |-> <<>>, ret |-> "-", log |-> <<>>]

\* the query without .eq('user_id', userId)
PendingOfAnyUser(tbl, uid) == {i \in DOMAIN tbl : tbl[i].status = "pending"}

Pending(tbl, uid) == {i \in DOMAIN tbl : tbl[i].status = "pending" /\ tbl[i].user_id = uid}

\* the user_id of every pending row, without the new Set(...)
UsersOfPendingRows(tbl) ==
    LET rows(k) == [j \in 1..Cardinality(Pending(tbl, UserOrder[k])) |-> UserOrder[k]]
    IN  rows(1) \o rows(2)

\* 28-45: the user_id of the pending rows, ordered, without repetition
UsersWithPendingItems(tbl) == SelectSeq(UserOrder, LAMBDA u : Pending(tbl, u) # {})

\* the end of one iteration of for (const userId of userIds): the outcome is
\* noted, and the loop goes on or the function returns (117-121)
NextUser(b, outcome) ==
    LET b1 == [b EXCEPT !.log = Append(@, [outcome |-> outcome, fetched |-> b.fetched]),
                        !.fetched = {}, !.result = Null]
    IN  IF b.ui < Len(b.userIds) THEN [b1 EXCEPT !.pc = "fetch", !.ui = @ + 1]
        ELSE [b1 EXCEPT !.pc = "done", !.ui = 0, !.ret = "success"]

\* the branch with return null in place of continue
AbortRun(b) == [NextUser(b, "aifail") EXCEPT !.pc = "done", !.ui = 0, !.ret = "null"]

\* 80-83: if (!result) { console.error(...); continue; }
AfterAIFailure(b) == NextUser(b, "aifail")

\* the branch with return null after the log line
AbortAfterUpdateError(b) ==
    [NextUser(b, "updatefail") EXCEPT !.pc = "done", !.ui = 0, !.ret = "null"]

\* 106-108: if (updateError) { console.error(...) }, and on to the push
AfterUpdateError(b) == NextUser(b, "updatefail")

\* the branch that reports the user although the insert failed
PushAfterSaveError(b) ==
    NextUser([b EXCEPT !.details = Append(@, [userId |-> b.userIds[b.ui],
                                               processed |-> Cardinality(b.fetched)])],
             "savefail")

\* 95-98: if (saveError) { console.error(...); continue; }
AfterSaveError(b) == NextUser(b, "savefail")

\* 117-121: totalUsersProcessed: summaryResults.length
TotalUsersProcessed(b) == Len(b.details)

\* 16-24: the entry, up to await fetchSlackMessages()
StartRun(p, o) ==
    /\ batch[p].pc = "idle"
    /\ poller[p].pc = "idle"
    /\ IF ~config.supabase
       THEN /\ batch' = [batch EXCEPT ![p].pc = "done", ![p].ret = "null"]
            /\ UNCHANGED <<poller, hist>>
       ELSE /\ batch' = [batch EXCEPT ![p].pc = "poll"]
            /\ poller' = StartPoll(p)
            /\ hist' = StartHist(p)
    /\ obs' = o
    /\ UNCHANGED <<feed, config, items, nextId, summaries, workspaces, now>>

\* 157-162: the scheduler callback
RunBatchStart(p) == StartRun(p, NoObs)

\* 156-157: scheduleTimes: 8:00, 13:00, 19:00
ScheduleHours == {8, 13, 19}
AtScheduledHour == (feed.hour % 24) \in ScheduleHours

\* An hour passes while no run is under way; the scheduler has fired at a
\* scheduled hour before the hour is over.  The processes that have returned
\* are gone.
NextHour ==
    /\ feed.hour < MaxHour
    /\ \A p \in Procs : batch[p].pc \in {"idle", "done"} /\ poller[p].pc \in {"idle", "done"}
    /\ AtScheduledHour => \E p \in Procs : batch[p].pc = "done"
    /\ feed' = [feed EXCEPT !.hour = @ + 1]
    /\ batch' = [p \in Procs |-> IdleBatch]
    /\ poller' = [p \in Procs |-> IdlePoller]
    /\ obs' = NoObs
    /\ UNCHANGED <<config, items, nextId, summaries, workspaces, now, hist>>

\* GET /cron/summarize (api/index.ts:467-493), up to the call of
\* runBatchSummarization
CronSummarize(p, header) ==
    IF header # ExpectedHeader THEN Unauthorized(header)
    ELSE StartRun(p, [Request(header, 0) EXCEPT !.op = "run"])

\* 28-48: after the poll, the users that have pending items
RunBatchUsers(p, F) ==
    /\ batch[p].pc = "poll"
    /\ poller[p].pc = "done"
    /\ \E userError \in StoreErrors(F) :
        LET b == batch[p]
            userIds == UsersWithPendingItems(items)
        IN  batch' = [batch EXCEPT ![p] =
                IF userError THEN [b EXCEPT !.pc = "done", !.ret = "null"]
                ELSE IF Len(userIds) = 0 THEN [b EXCEPT !.pc = "done", !.ret = "count0"]
                ELSE [b EXCEPT !.pc = "fetch", !.userIds = userIds, !.ui = 1]]
    /\ obs' = NoObs
    /\ UNCHANGED <<feed, config, items, nextId, summaries, workspaces, now, poller, hist>>

\* the subsets of S (a set of ids) that have k elements
RECURSIVE KSubsets(_, _)
KSubsets(S, k) ==
    IF k = 0 THEN {{}}
    ELSE UNION {{T \cup {x} : T \in KSubsets({y \in S : y > x}, k - 1)} : x \in S}

\* the query without .limit(50)
FetchBatchesUnlimited(tbl, uid) == {Pending(tbl, uid)}

\* 53-64: up to 50 pending rows of the user.  The query has no .order, so
\* which rows are left out when there are more than 50 is up to the store.
FetchBatches(tbl, uid) ==
    LET P == Pending(tbl, uid)
        over == Cardinality(P) - Min(BatchLimit, Cardinality(P))
    IN  {P \ D : D \in KSubsets(P, over)}

RunBatchFetch(p, F) ==
    /\ batch[p].pc = "fetch"
    /\ \E fetchError \in StoreErrors(F), S \in FetchBatches(items, batch[p].userIds[batch[p].ui]) :
        LET b == batch[p] IN
        batch' = [batch EXCEPT ![p] =
            IF fetchError \/ S = {} THEN NextUser(b, "nofetch")
            ELSE [b EXCEPT !.pc = "generate", !.fetched = S]]
    /\ obs' = NoObs
    /\ UNCHANGED <<feed, config, items, nextId, summaries, workspaces, now, poller, hist>>

\* 68-83: the settings are read (their content only goes into the prompt),
\* then generateSummary; if (!result) continue
RunBatchGenerate(p, F) ==
    /\ batch[p].pc = "generate"
    /\ \E resp \in AIOutcomes(F) :
        LET b == batch[p]
            completion == generateSummary(resp)
            result == completion.value
        IN  batch' = [batch EXCEPT ![p] =
                IF completion.thrown THEN [b EXCEPT !.pc = "done", !.ui = 0, !.ret = "raised"]
                ELSE IF ~result.truthy THEN AfterAIFailure(b)
                ELSE [b EXCEPT !.pc = "save", !.result = result]]
    /\ obs' = [NoObs EXCEPT !.op = IF config.openai THEN "ai-call" ELSE "-"]
    /\ UNCHANGED <<feed, config, items, nextId, summaries, workspaces, now, poller, hist>>

\* the insert without target_items
SummaryWithoutTargets(uid, ids, p) == [user_id |-> uid, target_items |-> {}, by |-> p]

\* the insert that lists every row of the table
SummaryOfEveryRow(uid, ids, p) == [user_id |-> uid, target_items |-> Ids, by |-> p]

\* 85-98: insert into summaries.  summary_text is not null in the schema, so a
\* result without summaryText makes the insert fail like any store error.
Summary(uid, ids, p) == [user_id |-> uid, target_items |-> ids, by |-> p]

RunBatchSave(p, F) ==
    /\ batch[p].pc = "save"
    /\ \E storeError \in StoreErrors(F) :
        LET b == batch[p]
            saveError == storeError \/ ~b.result.summaryText
        IN  /\ summaries' = IF saveError THEN summaries
                            ELSE Append(summaries, Summary(b.userIds[b.ui], b.fetched, p))
            /\ batch' = [batch EXCEPT ![p] =
                    IF saveError THEN AfterSaveError(b) ELSE [b EXCEPT !.pc = "update"]]
    /\ obs' = NoObs
    /\ UNCHANGED <<feed, config, items, nextId, workspaces, now, poller, hist>>

\* 100-115: update items set status = 'summarized' where id in itemIds; an
\* error is logged; the user is pushed onto summaryResults either way
RunBatchUpdate(p, F) ==
    /\ batch[p].pc = "update"
    /\ \E updateError \in StoreErrors(F) :
        LET b == batch[p]
            b1 == [b EXCEPT !.details = Append(@, [userId |-> b.userIds[b.ui],
                                                    processed |-> Cardinality(b.fetched)])]
        IN  /\ items' = IF updateError THEN items
                        ELSE UpdateStatus(items, b.fetched, "summarized")
            /\ batch' = [batch EXCEPT ![p] =
                    IF updateError THEN AfterUpdateError(b1) ELSE NextUser(b1, "ok")]
    /\ obs' = NoObs
    /\ UNCHANGED <<feed, config, nextId, summaries, workspaces, now, poller, hist>>

-----------------------------------------------------------------------------
(* Specifications *)

EmptyTable == [i \in {} |-> Null]

\* A fresh deployment: empty tables, no process running
InitStore ==
    /\ config = Configured
    /\ feed = LiveFeed
    /\ items = EmptyTable
    /\ nextId = 1
    /\ summaries = <<>>
    /\ now = 0
    /\ poller = [p \in Procs |-> IdlePoller]
    /\ batch = [p \in Procs |-> IdleBatch]
    /\ obs = NoObs
    /\ hist = NoHist

Handlers ==
    \/ \E u \in Users, st \in {"", "web_clip", "web", "slack"} : ItemsCreate(u, st)
    \/ \E u \in Users, w \in Teams \cup {"all"} : ArchiveAll(u, w)

PollSteps(p, F) ==
    \/ PollWorkspaces(p, F)
    \/ PollUsers(p, F)
    \/ PollChannels(p, F)
    \/ PollHistory(p, F)
    \/ PollCheck(p, F)
    \/ PollInsert(p, F)

BatchSteps(p, F) ==
    \/ RunBatchStart(p)
    \/ RunBatchUsers(p, F)
    \/ RunBatchFetch(p, F)
    \/ RunBatchGenerate(p, F)
    \/ RunBatchSave(p, F)
    \/ RunBatchUpdate(p, F)

Webhooks ==
    \E t \in Teams : \E k \in 1..Len(ProviderPages(t)) : \E c \in 1..Len(ProviderPages(t)[k]) :
        LET ch == ProviderPages(t)[k][c].id IN
        \E m \in 1..Len(ProviderHistory(ch)) : WebhookSlack(t, ch, ProviderHistory(ch)[m])

\* One run of the summarizer with no workspace connected (the items are saved
\* links), with store and AI faults
InitBatch == InitStore /\ workspaces = <<>>

NextBatch ==
    \/ BatchSteps(1, {"store", "ai"}) \/ PollWorkspaces(1, {"store", "ai"})
    \/ Handlers

SpecBatch == InitBatch /\ [][NextBatch]_vars

\* Poll cycles and the webhook, with one workspace connected, with store and
\* provider faults
InitPoll == InitStore /\ workspaces = <<Workspace("T1", TRUE, "u1")>>

NextPoll ==
    \/ \E p \in Procs : MessagesSync(p) \/ PollSteps(p, {"store", "provider"})
    \/ Webhooks

SpecPoll == InitPoll /\ [][NextPoll]_vars

\* One poll cycle over three workspaces, the second without a token, with
\* provider faults.
InitWorkspaces ==
    /\ InitStore
    /\ workspaces = <<Workspace("T1", TRUE, "u1"), Workspace("T0", FALSE, "u1"),
                      Workspace("T2", TRUE, "u2")>>

NextWorkspaces ==
    \/ \E p \in Procs : MessagesSync(p) \/ PollSteps(p, {"provider"})
    \/ \E u \in Users : ItemsCreate(u, "slack")

SpecWorkspaces == InitWorkspaces /\ [][NextWorkspaces]_vars

\* Poll cycles while workspaces are connected and re-connected, with no
\* failure
NextReconnect ==
    \/ \E p \in Procs : MessagesSync(p) \/ PollSteps(p, {})
    \/ \E t \in Teams, u \in Users : AuthCallback(t, u)

SpecReconnect == InitPoll /\ [][NextReconnect]_vars

\* A run of the summarizer, sweeps and deletions by the users, with no
\* failure and no workspace connected
NextIntegrity ==
    \/ BatchSteps(1, {}) \/ PollWorkspaces(1, {})
    \/ \E u \in Users : ItemsCreate(u, "slack")
    \/ \E u \in Users, i \in Ids : ItemsDelete(u, i)
    \/ Tick(RetentionDays + 1)
    \/ runRetentionPolicy({})

SpecIntegrity == InitBatch /\ [][NextIntegrity]_vars

\* Two runs of the summarizer that may overlap, with no failure and no other
\* writer.  One workspace is connected and the store holds up to
\* MaxItems - 2 saved links.
OverlapRows == {Item("web", "pending", u, 0, NoChannel, NoTs, NoTeam) : u \in Users}

InitOverlap ==
    /\ config = Configured
    /\ feed = LiveFeed
    /\ \E n \in 0..(MaxItems - 2) : items \in [1..n -> OverlapRows] /\ nextId = n + 1
    /\ summaries = <<>>
    /\ workspaces = <<Workspace("T1", TRUE, "u1")>>
    /\ now = 0
    /\ poller = [p \in Procs |-> IdlePoller]
    /\ batch = [p \in Procs |-> IdleBatch]
    /\ obs = NoObs
    /\ hist = NoHist

NextOverlap == \E p \in Procs : BatchSteps(p, {}) \/ PollSteps(p, {})

SpecOverlap == InitOverlap /\ [][NextOverlap]_vars

\* A run of the summarizer, then a second one right after it has returned,
\* then the clock and sweeps; no failure.  Before the first run the webhook
\* delivers events and users save links.
FirstRunIdle == batch[1].pc = "idle"
FirstRunDone == batch[1].pc = "done"
RunsDone == \A p \in Procs : batch[p].pc = "done"

NextTwice ==
    \/ FirstRunIdle /\ Webhooks
    \/ FirstRunIdle /\ \E u \in Users : ItemsCreate(u, "web_clip")
    \/ BatchSteps(1, {}) \/ PollSteps(1, {})
    \/ FirstRunDone /\ (BatchSteps(2, {}) \/ PollSteps(2, {}))
    \/ RunsDone /\ Tick(RetentionDays + 1)
    \/ RunsDone /\ runRetentionPolicy({})

SpecTwice == InitPoll /\ [][NextTwice]_vars

\* Two runs of the summarizer, one after the other, over a backlog: user u1
\* has 1 to MaxBacklog pending links more than one batch takes, the first
\* MaxBacklog of them saved a day before the others, and user u2 has one.
\* No failure, no new item (the ids are used up) and no workspace.
BacklogRow(i, n) ==
    IF i = n THEN Item("web", "pending", "u2", 1, NoChannel, NoTs, NoTeam)
    ELSE Item("web", "pending", "u1", IF i <= MaxBacklog THEN 0 ELSE 1,
              NoChannel, NoTs, NoTeam)

InitBacklog ==
    /\ config = Configured
    /\ feed = LiveFeed
    /\ \E n \in (BatchLimit + 2)..(BatchLimit + MaxBacklog + 1) :
        /\ items = [i \in 1..n |-> BacklogRow(i, n)]
        /\ nextId = n + 1
    /\ summaries = <<>>
    /\ workspaces = <<>>
    /\ now = 1
    /\ poller = [p \in Procs |-> IdlePoller]
    /\ batch = [p \in Procs |-> IdleBatch]
    /\ obs = NoObs
    /\ hist = NoHist

NextBacklog ==
    \/ BatchSteps(1, {}) \/ PollWorkspaces(1, {})
    \/ FirstRunDone /\ (BatchSteps(2, {}) \/ PollWorkspaces(2, {}))

SpecBacklog == InitBacklog /\ [][NextBacklog]_vars

\* The scheduler as the only driver, over two days: the provider's messages
\* are posted at some hour of the first day, and the time of day runs from
\* that hour on.  One workspace, no failure.
InitSchedule ==
    /\ config = Configured
    /\ \E h \in 0..23 : feed = [hour |-> h, posted |-> h]
    /\ items = EmptyTable
    /\ nextId = 1
    /\ summaries = <<>>
    /\ workspaces = <<Workspace("T1", TRUE, "u1")>>
    /\ now = 0
    /\ poller = [p \in Procs |-> IdlePoller]
    /\ batch = [p \in Procs |-> IdleBatch]
    /\ obs = NoObs
    /\ hist = NoHist

NextSchedule ==
    \/ AtScheduledHour /\ RunBatchStart(1)
    \/ PollSteps(1, {})
    \/ RunBatchUsers(1, {}) \/ RunBatchFetch(1, {}) \/ RunBatchGenerate(1, {})
    \/ RunBatchSave(1, {}) \/ RunBatchUpdate(1, {})
    \/ NextHour

SpecSchedule == InitSchedule /\ [][NextSchedule]_vars

\* The scheduled entry points with every collaborator failing at will: store
\* statements returning errors, provider and AI calls throwing or answering
\* anything.
AnyFault == {"store", "provider", "ai"}

NextFaults ==
    \/ BatchSteps(1, AnyFault)
    \/ PollSteps(1, AnyFault)
    \/ runRetentionPolicy(AnyFault)
    \/ \E u \in Users : ItemsCreate(u, "web_clip")

SpecFaults == InitPoll /\ [][NextFaults]_vars

\* The entry points under every environment: each client present or missing,
\* CRON_SECRET set or unset.  The store holds a saved link of each user and
\* one workspace is connected; requests arrive with any of the headers.
Environments ==
    {Environment(supabase, openai, secret) :
        supabase \in BOOLEAN, openai \in BOOLEAN, secret \in {Unset, "s3cret"}}

Headers == {NoHeader, Bearer("s3cret"), Bearer("guess"), Bearer("undefined")}

InitEnvironment ==
    /\ config \in Environments
    /\ feed = LiveFeed
    /\ items = InsertItem(InsertItem(EmptyTable, 1,
                    Item("web", "pending", "u1", 0, NoChannel, NoTs, NoTeam)), 2,
                    Item("web", "pending", "u2", 0, NoChannel, NoTs, NoTeam))
    /\ nextId = 3
    /\ summaries = <<>>
    /\ workspaces = <<Workspace("T1", TRUE, "u1")>>
    /\ now = 0
    /\ poller = [p \in Procs |-> IdlePoller]
    /\ batch = [p \in Procs |-> IdleBatch]
    /\ obs = NoObs
    /\ hist = NoHist

NextEnvironment ==
    \/ \E p \in Procs, header \in Headers : CronSummarize(p, header)
    \/ \E header \in Headers : CronRetention(header, {})
    \/ \E p \in Procs : MessagesSync(p) \/ BatchSteps(p, {}) \/ PollSteps(p, {})
    \/ runRetentionPolicy({})

SpecEnvironment == InitEnvironment /\ [][NextEnvironment]_vars

\* The sweep over a store that holds rows of every kind and age, with store
\* faults.  The schema admits the status done, which the row-level policies
\* let a signed-in client write directly; archived rows come from archive-all.
SweepRows ==
    {Item(st, status, "u1", at, NoChannel, NoTs, NoTeam) :
        st \in {"slack", "web"}, status \in {"pending", "summarized", "done"},
        at \in {0, 1}}

InitSweep ==
    /\ config = Configured
    /\ feed = LiveFeed
    /\ \E n \in 0..(MaxItems - 1) : items \in [1..n -> SweepRows] /\ nextId = n + 1
    /\ summaries = <<>>
    /\ workspaces = <<>>
    /\ now = 1
    /\ poller = [p \in Procs |-> IdlePoller]
    /\ batch = [p \in Procs |-> IdleBatch]
    /\ obs = NoObs
    /\ hist = NoHist

NextSweep ==
    \/ runRetentionPolicy({"store"})
    \/ Tick(1)
    \/ \E st \in {"web_clip", "slack"} : ItemsCreate("u1", st)
    \/ ArchiveAll("u1", "all")

SpecSweep == InitSweep /\ [][NextSweep]_vars

\* Everything together: two overlapping runs of the summarizer (each polls
\* first), the webhook, link creation, archive-all and the sweep, with no
\* faults and a clock that jumps past the retention threshold
Init == InitPoll

\* this specification keeps one row fewer than MaxItems
Room == nextId < MaxItems

Next ==
    \/ \E p \in Procs :
        \/ BatchSteps(p, {})
        \/ PollWorkspaces(p, {}) \/ PollUsers(p, {}) \/ PollChannels(p, {})
        \/ PollHistory(p, {}) \/ PollCheck(p, {})
        \/ Room /\ PollInsert(p, {})
    \/ Room /\ WebhookSlack("T1", "C1", ProviderHistory("C1")[1])
    \/ Room /\ ItemsCreate("u1", "web_clip")
    \/ ArchiveAll("u1", "all")
    \/ runRetentionPolicy({})
    \/ Tick(RetentionDays + 1)

Spec == Init /\ [][Next]_vars

-----------------------------------------------------------------------------
(* Claims *)

SummaryIndexes == 1..Len(summaries)

\* C1: batch isolation.  Every summary references only rows of its own user,
\* and the batch a run holds for a user contains only rows of that user.
C1_BatchIsolation ==
    /\ \A k \in SummaryIndexes : \A i \in summaries[k].target_items \cap Ids :
        items[i].user_id = summaries[k].user_id
    /\ \A p \in Procs : \A i \in batch[p].fetched \cap Ids :
        items[i].user_id = batch[p].userIds[batch[p].ui]

\* a run has stored a summary for each of two users, who both had pending rows
C1_Witness ==
    \E p \in Procs, j, k \in SummaryIndexes :
        /\ summaries[j].by = p /\ summaries[k].by = p
        /\ summaries[j].user_id = "u1" /\ summaries[k].user_id = "u2"
        /\ Len(batch[p].userIds) = 2

\* the rows a sweep removed, and the age limit it applied
Swept == DOMAIN obs.before \ Ids
Expired(row) == row.created_at < now - RetentionDays

\* C2: retention exclusion.  A sweep deletes no web row and no pending row.
C2_RetentionExclusion ==
    obs.op = "sweep" =>
        \A i \in Swept : obs.before[i].source_type # "web" /\ obs.before[i].status # "pending"

\* a sweep has deleted a row and has kept an expired web row that is done and
\* an expired slack row that is pending
C2_Witness ==
    /\ obs.op = "sweep"
    /\ Swept # {}
    /\ \E i \in Ids : items[i].source_type = "web" /\ items[i].status = "done" /\ Expired(items[i])
    /\ \E i \in Ids : items[i].source_type = "slack" /\ items[i].status = "pending"
                      /\ Expired(items[i])

\* C3: a sweep without store error deletes exactly the rows created more than
\* 7 days ago whose status is archived, done or summarized and whose source
\* kind is not web, and leaves every other row as it was.
C3_SweepExact ==
    (obs.op = "sweep" /\ ~obs.error) =>
        /\ Swept = {i \in DOMAIN obs.before :
                        /\ Expired(obs.before[i])
                        /\ obs.before[i].status \in {"archived", "done", "summarized"}
                        /\ obs.before[i].source_type # "web"}
        /\ \A i \in Ids : items[i] = obs.before[i]
        /\ Ids \subseteq DOMAIN obs.before

\* a sweep has deleted a done slack row and has kept one that is exactly 7
\* days old
C3_Witness ==
    /\ obs.op = "sweep" /\ ~obs.error
    /\ \E i \in Swept : obs.before[i].status = "done" /\ obs.before[i].source_type = "slack"
    /\ \E i \in Ids : /\ items[i].status = "done" /\ items[i].source_type = "slack"
                      /\ items[i].created_at = now - RetentionDays

\* the summaries and the details entries of run p for user u
SummariesOf(p, u) == {k \in SummaryIndexes : summaries[k].by = p /\ summaries[k].user_id = u}
DetailsOf(p, u) == {k \in 1..Len(batch[p].details) : batch[p].details[k].userId = u}
InRun(p, u) == \E k \in 1..Len(batch[p].userIds) : batch[p].userIds[k] = u

\* the step of run p that ends the turn of a user with the given outcome
Ends(p, outcome) ==
    /\ Len(batch'[p].log) = Len(batch[p].log) + 1
    /\ batch'[p].log[Len(batch'[p].log)].outcome = outcome

C7_State ==
    \A p \in Procs :
        /\ \A k \in 1..Len(batch[p].log) :
            LET u == batch[p].userIds[k]
                ids == batch[p].log[k].fetched
            IN  batch[p].log[k].outcome = "ok" =>
                    /\ Cardinality(SummariesOf(p, u)) = 1
                    /\ \A j \in SummariesOf(p, u) : summaries[j].target_items = ids
                    /\ ids # {}
                    /\ \A i \in ids \cap Ids : items[i].user_id = u /\ items[i].status # "pending"
                    /\ Cardinality(DetailsOf(p, u)) = 1
                    /\ \A j \in DetailsOf(p, u) : batch[p].details[j].processed = Cardinality(ids)
        /\ \A u \in Users : ~InRun(p, u) => SummariesOf(p, u) = {} /\ DetailsOf(p, u) = {}

C7_Update ==
    \A p \in Procs :
        Ends(p, "ok") =>
            items' = [i \in Ids |->
                        IF i \in batch[p].fetched
                        THEN [items[i] EXCEPT !.status = "summarized"] ELSE items[i]]

\* C7: when the AI call and both store writes succeed for a user, the run has
\* created exactly one summary for that user, whose target_items are exactly
\* the fetched ids, its status update sets exactly those rows to summarized,
\* and details lists the user once; a user who had no pending rows gets no
\* summary and no details entry.
C7_OneSummaryPerUser == []C7_State /\ [][C7_Update]_vars

\* a run has returned after summarizing two users, while a row that was not in
\* either batch is still pending
C7_Witness ==
    \E p \in Procs :
        /\ batch[p].pc = "done" /\ batch[p].ret = "success"
        /\ Len(batch[p].log) = 2
        /\ batch[p].log[1].outcome = "ok" /\ batch[p].log[2].outcome = "ok"
        /\ \E i \in Ids : items[i].status = "pending"

C8_State ==
    \A p \in Procs :
        /\ \A k \in 1..Len(batch[p].log) :
            LET u == batch[p].userIds[k] IN
            batch[p].log[k].outcome = "aifail" =>
                /\ SummariesOf(p, u) = {} /\ DetailsOf(p, u) = {}
                /\ batch[p].log[k].fetched # {}
        /\ (batch[p].pc = "done" /\ Len(batch[p].log) > 0) =>
                /\ batch[p].ret = "success"
                /\ Len(batch[p].log) = Len(batch[p].userIds)
                /\ \A k \in 1..Len(batch[p].log) :
                    DetailsOf(p, batch[p].userIds[k]) # {}
                        <=> batch[p].log[k].outcome \in {"ok", "updatefail"}

C8_Skip ==
    \A p \in Procs :
        Ends(p, "aifail") =>
            /\ items' = items /\ summaries' = summaries
            /\ batch'[p].details = batch[p].details
            /\ IF Len(batch'[p].log) < Len(batch[p].userIds)
               THEN batch'[p].pc = "fetch" /\ batch'[p].ui = batch[p].ui + 1
               ELSE batch'[p].pc = "done" /\ batch'[p].ret = "success"

\* C8: a failure of the AI client for one user creates no summary and no
\* details entry for that user and changes no row; the run goes on with the
\* next user, every user of the run gets a turn, and the run returns the
\* success report covering the users that were summarized.
C8_AIFailureIsolation == []C8_State /\ [][C8_Skip]_vars

\* a run has returned success after the AI client failed for the first user
\* and the second user was summarized; the first user's rows are still pending
C8_Witness ==
    \E p \in Procs :
        /\ batch[p].pc = "done" /\ batch[p].ret = "success"
        /\ Len(batch[p].log) = 2
        /\ batch[p].log[1].outcome = "aifail" /\ batch[p].log[2].outcome = "ok"
        /\ \A i \in batch[p].log[1].fetched : i \in Ids /\ items[i].status = "pending"
        /\ SummariesOf(p, batch[p].userIds[2]) # {}

\* C9: fail-closed AI contract.  A result that generateSummary returned and
\* that the run goes on to persist carries both summaryText and keyTopics.
C9_FailClosed ==
    \A p \in Procs :
        batch[p].pc \in {"save", "update"} =>
            batch[p].result.summaryText /\ batch[p].result.keyTopics

\* no two rows of one workspace carry the same (channel id, source timestamp)
NoDuplicates ==
    \A i, j \in Ids :
        (/\ i # j
         /\ items[i].channel # NoChannel
         /\ items[i].team = items[j].team
         /\ items[i].channel = items[j].channel
         /\ items[i].ts = items[j].ts) => FALSE

C5_SecondPollInsertsNothing ==
    hist.streak = "second" =>
        \A p \in Procs : InFlight(p) => poller[p].pc # "insert" /\ poller[p].totalSaved = 0

\* C10: after a 429 on conversations.list the cycle has left the pagination
\* loop of that workspace, and a workspace costs no more list requests than
\* the provider has pages.
C10_ListingGivesUp ==
    \A p \in Procs :
        poller[p].pc = "channels" =>
            /\ ~poller[p].limited
            /\ poller[p].listReqs < Len(ProviderPages(poller[p].ws[poller[p].wi].team_id))

C6_Forward == \A i \in Ids \cap DOMAIN items' :
                items[i].status # "pending" => items'[i].status # "pending"

C6_Reapplied ==
    \A p \in Procs :
        (batch[p].pc = "update" /\ batch'[p].pc # "update") =>
            /\ Ends(p, "ok")
            /\ \A i \in batch[p].fetched \cap Ids :
                items[i].status = "summarized" => items'[i] = items[i]

\* C6: status monotonicity.  No step of any operation takes a row from a
\* status other than pending back to pending, and the summarization update
\* of a row that is already summarized leaves the row as it is and ends the
\* user's turn as a success.
C6_StatusMonotone == [][C6_Forward /\ C6_Reapplied]_vars

\* two runs have summarized the same row, one after the other, and the row is
\* summarized
C6_Witness ==
    \E k \in 1..Len(batch[1].log), j \in 1..Len(batch[2].log) :
        /\ batch[1].log[k].outcome = "ok" /\ batch[2].log[j].outcome = "ok"
        /\ \E i \in batch[1].log[k].fetched \cap batch[2].log[j].fetched :
            i \in Ids /\ items[i].status = "summarized"

C11_State ==
    \A p \in Procs :
        InFlight(p) /\ poller[p].pc # "start" =>
            poller[p].wi \in 1..Len(poller[p].ws) /\ poller[p].ws[poller[p].wi].access_token

C11_Step ==
    /\ \A p \in Procs :
        (InFlight(p) /\ poller[p].pc # "start" /\ poller'[p] # poller[p]) =>
            LET q == poller[p]
                later == {j \in (q.wi + 1)..Len(q.ws) : q.ws[j].access_token}
            IN  /\ poller'[p].ws = q.ws
                /\ \/ poller'[p].pc # "done" /\ poller'[p].wi = q.wi
                   \/ poller'[p].pc # "done" /\ later # {}
                        /\ poller'[p].wi \in later
                        /\ \A j \in later : poller'[p].wi <= j
                   \/ poller'[p].pc = "done" /\ later = {}
    /\ (\E p \in Procs : poller'[p] # poller[p]) =>
            \A i \in Ids : i \in DOMAIN items' /\ items'[i] = items[i]

\* C11: per-workspace failure isolation.  Whatever a request of workspace i
\* answers (a throw, a response that is not ok, a 429), the step leaves the
\* cycle in workspace i or at the start of the next workspace that has a
\* token, and ends the cycle only when no such workspace is left; no step of
\* a cycle removes or alters a stored row.
C11_WorkspaceIsolation == []C11_State /\ [][C11_Step]_vars

\* a cycle is about to store the message of the third workspace although
\* nothing of the first workspace was stored: its requests failed
C11_Witness ==
    \E p \in Procs :
        /\ poller[p].pc = "insert" /\ poller[p].wi = 3
        /\ \A i \in Ids : items[i].team # "T1"
        /\ \A o \in Procs \ {p} : poller[o].pc = "idle"

C12_State ==
    \A p \in Procs : \A k \in 1..Len(batch[p].log) :
        LET u == batch[p].userIds[k] IN
        batch[p].log[k].outcome = "updatefail" =>
            /\ Cardinality(SummariesOf(p, u)) = 1
            /\ \A j \in SummariesOf(p, u) : summaries[j].target_items = batch[p].log[k].fetched
            /\ \A i \in batch[p].log[k].fetched \cap Ids : items[i].status # "summarized"

C12_Step ==
    /\ Len(summaries') >= Len(summaries)
    /\ \A k \in SummaryIndexes : summaries'[k] = summaries[k]
    /\ \A p \in Procs :
        Ends(p, "updatefail") =>
            /\ items' = items /\ summaries' = summaries
            /\ IF Len(batch'[p].log) < Len(batch[p].userIds)
               THEN batch'[p].pc = "fetch" /\ batch'[p].ui = batch[p].ui + 1
               ELSE batch'[p].pc = "done" /\ batch'[p].ret = "success"

\* C12: when the status update fails after the summary was stored, the
\* summary stays (no step ever removes or rewrites a summary), the step
\* changes no row, so the fetched rows are not summarized, and the run goes
\* on with the next user or returns its success report.
C12_UpdateFailureKeepsSummary == []C12_State /\ [][C12_Step]_vars

\* a run has returned success after the update failed for the first user,
\* whose rows are still pending and referenced by the stored summary, and
\* the second user was summarized
C12_Witness ==
    \E p \in Procs :
        /\ batch[p].pc = "done" /\ batch[p].ret = "success"
        /\ Len(batch[p].log) = 2
        /\ batch[p].log[1].outcome = "updatefail" /\ batch[p].log[2].outcome = "ok"
        /\ \A i \in batch[p].log[1].fetched : i \in Ids /\ items[i].status = "pending"
        /\ \E j \in SummariesOf(p, batch[p].userIds[1]) :
            summaries[j].target_items = batch[p].log[1].fetched

\* C13: the value a sweep returns is the number of rows it deleted.
C13_SweepReturnsCount ==
    (obs.op = "sweep" /\ ~obs.error) =>
        obs.ret.defined /\ obs.ret.value = Cardinality(Swept)

\* C14: with no store handle, a run of the summarizer returns null at once,
\* no poll cycle issues a provider request, the AI client is not called, and
\* the retention trigger answers with a failure status.
C14_MissingStoreFails ==
    ~config.supabase =>
        /\ \A p \in Procs :
            /\ batch[p].pc \in {"idle", "done"}
            /\ batch[p].pc = "done" => batch[p].ret = "null"
            /\ poller[p].pc \in {"idle", "done"}
        /\ obs.op # "ai-call"
        /\ (obs.op = "nosweep" /\ obs.header # NoHeader) => obs.status >= 400

\* C15: with no AI credential, no request goes to the AI provider, and a run
\* that found users with pending rows does not return the success report.
C15_MissingCredentialFails ==
    ~config.openai =>
        /\ obs.op # "ai-call"
        /\ \A p \in Procs :
            (batch[p].pc = "done" /\ Len(batch[p].userIds) > 0) => batch[p].ret # "success"

\* C18: trigger gating.  A request that a trigger answers by starting a run
\* carries Bearer and the configured secret, and a secret is configured.
C18_TriggerGating ==
    (obs.header # NoHeader /\ obs.op # "rejected") =>
        config.CRON_SECRET # Unset /\ obs.header = Bearer(config.CRON_SECRET)

\* C16: no scheduled entry point raises.  Whatever the collaborators answer,
\* a run of the summarizer that has ended has returned null, { count: 0 } or
\* its report, a poll cycle and a sweep complete, and no exception leaves
\* any of them.
C16_NoEntryPointRaises ==
    /\ \A p \in Procs :
        /\ batch[p].ret # "raised"
        /\ batch[p].pc = "done" => batch[p].ret \in {"null", "count0", "success"}
        /\ batch[p].pc \notin {"idle", "poll", "done"} => poller[p].pc = "done"
    /\ obs.op = "sweep" => obs.ret = Undefined

\* a run has returned its report although the provider failed during the
\* poll, the AI client failed for the first user and a store write failed
\* for the second
C16_Witness ==
    /\ batch[1].pc = "done" /\ batch[1].ret = "success"
    /\ Len(batch[1].log) = 2
    /\ batch[1].log[1].outcome = "aifail"
    /\ batch[1].log[2].outcome \in {"savefail", "updatefail"}
    /\ Ids # {} /\ \A i \in Ids : items[i].source_type = "web"

\* the summaries of run p that reference row i
ReferencesBy(p, i) == {k \in SummaryIndexes : summaries[k].by = p /\ i \in summaries[k].target_items}

BothDone == \A p \in Procs : batch[p].pc = "done"

\* what two runs leave behind, one after the other or overlapping: every row
\* is summarized and each run references a row at most once, some run does
C17_Outcome ==
    BothDone =>
        \A i \in Ids :
            /\ items[i].status = "summarized"
            /\ \E p \in Procs : ReferencesBy(p, i) # {}
            /\ \A p \in Procs : Cardinality(ReferencesBy(p, i)) <= 1

C17_Steps ==
    \A i \in Ids :
        /\ i \in DOMAIN items'
        /\ items[i].status # "pending" => items'[i].status # "pending"
        /\ \A p \in Procs : Ends(p, "ok") /\ i \in batch[p].fetched =>
                items'[i].status = "summarized"

\* C17 as stated: two overlapping runs leave the store as two runs one after
\* the other would, except that a row may be referenced by the summaries of
\* both: in particular the store holds every provider message once.
C17_OverlapOnlyDoubleReference == C17_Outcome /\ (BothDone => NoDuplicates)

\* C17, amended: two overlapping runs, without failures or other writers,
\* leave every row they fetched summarized, delete no row and return none to
\* pending; a row is referenced by at most one summary of each run.
C17_OverlapTolerated == [](C17_Outcome) /\ [][C17_Steps]_vars

\* both runs have ended and a row is referenced by a summary of each
C17_Witness ==
    /\ BothDone
    /\ \E i \in Ids : \A p \in Procs : ReferencesBy(p, i) # {}

C19_SecondRun ==
    batch[2].pc # "idle" =>
        /\ poller[2].pc # "insert" /\ poller[2].totalSaved = 0
        /\ \A u \in Users : SummariesOf(2, u) = {}
        /\ batch[2].pc \notin {"save", "update"}

C19_SecondSweep ==
    (obs.op = "sweep" /\ ~obs.error /\ obs'.op = "sweep") => items' = items

\* C19: the entry points are idempotent.  A run of the summarizer that starts
\* after another has returned, with no new provider message and no failure,
\* inserts no row, stores no summary and updates no row; a sweep that
\* follows a completed sweep deletes nothing.
C19_Idempotent == []C19_SecondRun /\ [][C19_SecondSweep]_vars

C20_Step ==
    \A i \in Ids \cap DOMAIN items' :
        (items'[i].status = "summarized" /\ items[i].status # "summarized") =>
            items[i].status = "pending"

\* C20: the summarizer changes a status only from pending to summarized: no
\* step makes a row summarized that was archived, or in any status other
\* than pending, just before.
C20_OnlyPendingBecomesSummarized == [][C20_Step]_vars

\* the message the poller of p is at
CurrentMsg(p) == poller[p].msgs[poller[p].mi]

\* C21: a message that reaches the insert of a poll has no subtype, has an
\* author, carries no inline bot marker, and its author is not one of the
\* members the workspace directory flags as a bot; so a message written by
\* a bot of the directory is never inserted.
C21_MessageFilter ==
    \A p \in Procs :
        poller[p].pc = "insert" =>
            /\ CurrentMsg(p).subtype = ""
            /\ CurrentMsg(p).user # ""
            /\ ~CurrentMsg(p).bot_id
            /\ CurrentMsg(p).user \notin DirectoryBots

\* all the channels of a listing
RECURSIVE AllChannels(_)
AllChannels(pages) == IF pages = <<>> THEN <<>> ELSE Head(pages) \o AllChannels(Tail(pages))

\* users.list of the current workspace was answered, and not with ok
DirectoryMissing(q) ==
    q.pc \in {"channels", "history", "check", "insert"} /\ q.bots = {}

\* conversations.list of the current workspace ended before its last page
ListingCutShort(q) ==
    /\ q.pc \in {"history", "check", "insert"}
    /\ Len(q.channels) < Len(AllChannels(ProviderPages(q.ws[q.wi].team_id)))

\* C22: a workspace whose user-directory request or channel-list request
\* was answered with a response that is not ok is skipped for the cycle: the
\* poll reads no history and inserts no item for it.
C22_NonOkSkipsWorkspace ==
    \A p \in Procs :
        (DirectoryMissing(poller[p]) \/ ListingCutShort(poller[p])) =>
            poller[p].pc \notin {"history", "check", "insert"}

\* a duplication check of p ends with the message left out
Suppressed(p) ==
    /\ poller[p].pc = "check"
    /\ poller'[p] # poller[p]
    /\ poller'[p].pc # "insert"

C27_Step ==
    \A p \in Procs :
        Suppressed(p) =>
            \E i \in Ids :
                /\ items[i].channel = poller[p].channels[poller[p].ci].id
                /\ items[i].ts = CurrentMsg(p).ts
                /\ items[i].team = poller[p].ws[poller[p].wi].team_id

\* C27: the duplication check is scoped to the workspace: a poll leaves a
\* message out as already stored only when an item of the polled workspace
\* carries its (channel id, source timestamp); an item of another workspace
\* with the same pair never suppresses the insert.
C27_DedupPerWorkspace == [][C27_Step]_vars

C30_State ==
    \A p \in Procs :
        /\ \A k \in 1..Len(batch[p].log) :
            LET u == batch[p].userIds[k] IN
            batch[p].log[k].outcome = "savefail" =>
                /\ SummariesOf(p, u) = {} /\ DetailsOf(p, u) = {}
                /\ batch[p].log[k].fetched # {}
        /\ (batch[p].pc = "done" /\ batch[p].ret = "success") =>
                TotalUsersProcessed(batch[p])
                    = Cardinality({k \in SummaryIndexes : summaries[k].by = p})

C30_Step ==
    \A p \in Procs :
        Ends(p, "savefail") =>
            /\ items' = items /\ summaries' = summaries
            /\ batch'[p].details = batch[p].details
            /\ IF Len(batch'[p].log) < Len(batch[p].userIds)
               THEN batch'[p].pc = "fetch" /\ batch'[p].ui = batch[p].ui + 1
               ELSE batch'[p].pc = "done" /\ batch'[p].ret = "success"

\* C30: when the insert of the summary fails for a user, the run stores no
\* summary and reports no details entry for that user, the step changes no
\* row (the fetched rows keep their status), and the run goes on with the
\* next user or returns; totalUsersProcessed of a returned report equals the
\* number of summaries that run has stored.
C30_SaveFailureSkipsUser == []C30_State /\ [][C30_Step]_vars

\* a run has returned success with one user reported, after the insert of
\* the summary failed for the first user, whose rows are still pending, and
\* the second user was summarized
C30_Witness ==
    \E p \in Procs :
        /\ batch[p].pc = "done" /\ batch[p].ret = "success"
        /\ Len(batch[p].log) = 2
        /\ batch[p].log[1].outcome = "savefail" /\ batch[p].log[2].outcome = "ok"
        /\ \A i \in batch[p].log[1].fetched : i \in Ids /\ items[i].status = "pending"
        /\ TotalUsersProcessed(batch[p]) = 1
        /\ Cardinality(SummaryIndexes) = 1

\* the step is an insert of the poll cycle of p
PollInserts(p) ==
    /\ poller[p].pc = "insert"
    /\ poller'[p] # poller[p]
    /\ nextId' = nextId + 1

C25_Step ==
    \A p \in Procs :
        PollInserts(p) =>
            LET row == items'[nextId] IN
            /\ row.status = "pending"
            /\ row.source_type = "slack"
            /\ row.team = poller[p].ws[poller[p].wi].team_id
            /\ \E i \in 1..Len(workspaces) :
                /\ workspaces[i].team_id = row.team
                /\ workspaces[i].user_id = row.user_id

\* C25: every item the poller inserts is pending, of source kind slack,
\* carries the team of the polled workspace, and is owned by the user who
\* owns that workspace at the moment of the insert, also when the workspace
\* was re-connected by another user while the cycle was running.
C25_PolledItemOwner == [][C25_Step]_vars

\* C28 (as claimed): every id in a summary's target_items is the id of an
\* item that is in the store.
C28_ReferentialIntegrity ==
    \A k \in SummaryIndexes : summaries[k].target_items \subseteq Ids

C28_State ==
    \A k \in SummaryIndexes :
        /\ summaries[k].target_items # {}
        /\ \A i \in summaries[k].target_items :
            /\ i < nextId
            /\ i \in Ids => items[i].user_id = summaries[k].user_id

C28_Step ==
    \A p \in Procs :
        /\ (batch[p].pc = "fetch" /\ batch'[p].pc = "generate") =>
                \A i \in batch'[p].fetched :
                    /\ i \in Ids
                    /\ items[i].status = "pending"
                    /\ items[i].user_id = batch[p].userIds[batch[p].ui]
        /\ (batch[p].pc = "save" /\ batch'[p].pc = "update") =>
                /\ Len(summaries') = Len(summaries) + 1
                /\ summaries'[Len(summaries')].target_items = batch[p].fetched
                /\ summaries'[Len(summaries')].user_id = batch[p].userIds[batch[p].ui]

\* C28 (amended): every id in a summary's target_items is the id of an item
\* that was in the store, pending and owned by the summary's user when the
\* run fetched it; ids are not given out again, and a listed id that is
\* still in the store is an item of the summary's user.  The listed items
\* need not exist any more: the sweep and DELETE /items/:id remove items
\* that summaries list.
C28_ReferencesAsFetched == []C28_State /\ [][C28_Step]_vars

\* a sweep has just deleted an item that a stored summary lists
C28_Witness ==
    /\ obs.op = "sweep"
    /\ \E k \in SummaryIndexes : \E i \in summaries[k].target_items :
        i \notin Ids /\ i \in DOMAIN obs.before

\* the runs that have returned, when no run is under way
RunsReturned == Cardinality({p \in Procs : batch[p].pc = "done"})
NoRunUnderWay == \A p \in Procs : batch[p].pc \in {"idle", "done"}
RowsOf(u) == {i \in Ids : items[i].user_id = u}

C23_State ==
    /\ \A k \in SummaryIndexes : Cardinality(summaries[k].target_items) <= BatchLimit
    /\ \A u \in Users :
        NoRunUnderWay =>
            LET left == Cardinality(RowsOf(u)) - RunsReturned * BatchLimit
            IN  Cardinality(Pending(items, u)) = IF left > 0 THEN left ELSE 0

\* C23: no summary lists more than 50 items; for a user with N pending items
\* (N above 50), with no new item and no failure, N - 50 items are still
\* pending when the first run has returned, and none is pending after the
\* second: after r runs max(N - 50 r, 0) items of the user are pending.
C23_BatchCapAndDrain == C23_State

\* two runs have returned; the first summarized 50 items of the user whose
\* backlog was larger, the second the rest, and no item is pending
C23_Witness ==
    /\ RunsDone
    /\ Cardinality(RowsOf("u1")) > BatchLimit
    /\ \E k \in SummaryIndexes :
        summaries[k].by = 1 /\ Cardinality(summaries[k].target_items) = BatchLimit
    /\ \E k \in SummaryIndexes : summaries[k].by = 2 /\ summaries[k].user_id = "u1"
    /\ \A i \in Ids : items[i].status = "summarized"

\* C24: when a user has more than 50 pending items, the batch a run fetches
\* consists of the 50 oldest: no pending item of the user that is left out
\* is older than an item of the batch.
C24_OldestFirst ==
    \A p \in Procs :
        batch[p].pc = "generate" =>
            \A i \in batch[p].fetched :
                \A j \in Pending(items, batch[p].userIds[batch[p].ui]) \ batch[p].fetched :
                    items[i].created_at <= items[j].created_at

C29_State ==
    /\ \A k \in SummaryIndexes :
        /\ summaries[k].target_items # {}
        /\ Cardinality(summaries[k].target_items) <= BatchLimit
    /\ \A p \in Procs, u \in Users : Cardinality(SummariesOf(p, u)) <= 1

C29_Step ==
    \A p \in Procs :
        /\ (batch[p].pc = "fetch" /\ batch'[p].pc = "generate") =>
                batch'[p].fetched \subseteq {i \in Ids : items[i].status = "pending"}
        /\ Len(summaries') > Len(summaries) /\ batch'[p] # batch[p] =>
                /\ Len(summaries') = Len(summaries) + 1
                /\ summaries'[Len(summaries')].target_items = batch[p].fetched

\* C29: every summary a run stores lists at least one and at most 50 item
\* ids, which are the ids the run fetched, each of them pending at the fetch
\* (the list is the id column of the rows of one select, kept here as a set
\* of ids), and one run stores at most one summary per user.
C29_SummaryShape == []C29_State /\ [][C29_Step]_vars

\* the first run has stored a summary of 50 items for the user with the
\* backlog and one for the other user, and has returned
C29_Witness ==
    /\ batch[1].pc = "done" /\ batch[1].ret = "success"
    /\ \E k \in SummariesOf(1, "u1") : Cardinality(summaries[k].target_items) = BatchLimit
    /\ SummariesOf(1, "u2") # {}
    /\ Pending(items, "u1") # {}

\* C26: with the scheduler as the only driver, the human message of channel
\* C1 is stored as an item once a full day of scheduled runs has passed
\* since it was posted, whatever hour it was posted at.
C26_IngestionCoverage ==
    (feed.hour >= feed.posted + 24 /\ NoRunUnderWay) =>
        \E i \in Ids : items[i].channel = "C1" /\ items[i].ts = 1

====
